---- MODULE Spec2Model ----
(***************************************************************************)
(* Model of the deduplication and story-clustering engine of               *)
(* daily-media-briefing (src/script_v1.py).                                *)
(*                                                                         *)
(* Strings are sequences of one-character strings, so that strip(),        *)
(* split()/join() and len() are computed as Python computes them.          *)
(* Python lists are sequences; list indices of a batch are 0-based as in   *)
(* the source (parent, rank, sim and items are functions over 0..n-1).     *)
(***************************************************************************)
EXTENDS Integers, Sequences, FiniteSets, TLC

VARIABLES
    \* ---- cluster_items ----
    items,          \* the batch handed to cluster_items: 0..n-1 -> item
    sim,            \* the matrix cosine_similarity(X) returns for the batch
    threshold,      \* the threshold of the last cluster_items call
    clusters,       \* the list of clusters (lists of item indices) returned
    vec_invoked,    \* TfidfVectorizer.fit_transform was called
    cl_pc,          \* "start" before the first call, "done" after a call
    prev,           \* <<threshold, result>> of the call before the last one, if any
    \* ---- story_title_for_cluster / story_summary_for_cluster ----
    cluster,        \* one cluster: a list of items
    story,          \* the story built for it
    picked,         \* indices of the items whose snippet was accepted
    st_pc,
    \* ---- balance_items_by_source ----
    b_items,        \* input list (newest first)
    per_source,
    total,
    b_out,          \* indices (into b_items) of the returned list
    b_pc,
    \* ---- sqlite store / upsert_items ----
    db,             \* rows of table items
    now,            \* the clock behind utc_now_iso()
    call,           \* the last upsert_items call: arguments, result, db before
    \* ---- topic page loop of main ----
    stories,        \* stories_by_topic[topic], as left by the reorder step
    page_size,
    max_pages,
    rendered,       \* the render_template calls made for the topic, in order
    pg_pc,
    \* ---- ingestion loop of main ----
    outcomes,       \* what fetch, parse and insert will do for each source
    ing_idx,        \* position of the loop in the configured sources
    ing_log,        \* the lines printed by the loop, in order
    total_inserted,
    items_site,     \* the rows get_latest_items_by_topic hands to the build step
    ing_pc,         \* "loop", "build" after the loop, "raised" if main raised
    \* ---- stable_id ----
    sid_calls,      \* the stable_id calls made: arguments and returned key
    \* ---- _UnionFind ----
    uf_obj,         \* the object: parent and rank
    uf_comp,        \* the sets made by the union calls so far: index -> least member
    uf_last         \* the last call made and what it returned

clusterVars == <<items, sim, threshold, clusters, vec_invoked, cl_pc, prev>>
storyVars   == <<cluster, story, picked, st_pc>>
balanceVars == <<b_items, per_source, total, b_out, b_pc>>
storeVars   == <<db, now, call>>
pageVars    == <<stories, page_size, max_pages, rendered, pg_pc>>
ingestVars  == <<outcomes, ing_idx, ing_log, total_inserted, items_site, ing_pc>>
sidVars     == <<sid_calls>>
ufVars      == <<uf_obj, uf_comp, uf_last>>
restVars    == <<ingestVars, sidVars, ufVars>>
vars == <<clusterVars, storyVars, balanceVars, storeVars, pageVars, restVars>>

\* Python's None: a value that is no string (strings are tuples of characters)
None == <<"None">>

Min(a, b) == IF a <= b THEN a ELSE b

(***************************************************************************)
(* Strings                                                                 *)
(***************************************************************************)
IsSpace(c) == c = " "

RECURSIVE LStrip(_)
LStrip(s) == IF s # <<>> /\ IsSpace(Head(s)) THEN LStrip(Tail(s)) ELSE s

RECURSIVE RStrip(_)
RStrip(s) ==
    IF s # <<>> /\ IsSpace(s[Len(s)]) THEN RStrip(SubSeq(s, 1, Len(s) - 1)) ELSE s

\* str.strip()
Strip(s) == RStrip(LStrip(s))

\* x or ''   (None and '' both give '')
OrEmpty(x) == IF x = None THEN <<>> ELSE x

\* " ".join(s.split()): runs of whitespace collapse to one space, ends trimmed
RECURSIVE CollapseWs(_)
CollapseWs(s) ==
    LET t == LStrip(s) IN
    IF t = <<>> THEN <<>>
    ELSE LET RECURSIVE WordEnd(_)
             WordEnd(k) == IF k < Len(t) /\ ~IsSpace(t[k + 1]) THEN WordEnd(k + 1) ELSE k
             e    == WordEnd(1)
             rest == CollapseWs(SubSeq(t, e + 1, Len(t)))
         IN SubSeq(t, 1, e) \o (IF rest = <<>> THEN <<>> ELSE <<" ">> \o rest)

\* Python's order on the tuples used as sort keys (pairs of integers)
KeyGreater(a, b) == a[1] > b[1] \/ (a[1] = b[1] /\ a[2] > b[2])

\* Python's list.sort(key=..., reverse=True) / sorted(..., reverse=True): a
\* stable sort, elements with equal keys keep their original relative order.
\* keys[i] is the key of s[i].
SortedReverse(s, keys) ==
    LET n == Len(s)
        pos(i) == 1 + Cardinality({j \in 1..n :
                        \/ KeyGreater(keys[j], keys[i])
                        \/ (keys[j] = keys[i] /\ j < i)})
    IN [k \in 1..n |-> s[CHOOSE i \in 1..n : pos(i) = k]]

(***************************************************************************)
(* Normalizer                                                              *)
(***************************************************************************)
\* the one character U+00DF (sharp s)
SharpS == "sz"

Lower(c) == IF c = "A" THEN "a" ELSE IF c = "B" THEN "b" ELSE c

PunctChars == {"-", ":", "|", "'"}

RECURSIVE NormalizeChars(_)
NormalizeChars(s) ==
    IF s = <<>> THEN <<>>
    ELSE LET c == Lower(Head(s))
             r == IF c = SharpS THEN <<"s", "s">>
                  ELSE IF c \in PunctChars THEN <<" ">>
                  ELSE <<c>>
         IN r \o NormalizeChars(Tail(s))

_normalize_de_text(s) == CollapseWs(NormalizeChars(OrEmpty(s)))

_build_story_text(item) ==
    LET title   == _normalize_de_text(OrEmpty(item.title))
        summary == _normalize_de_text(OrEmpty(item.summary))
    IN Strip(title \o <<".", " ">> \o summary)

(***************************************************************************)
(* _UnionFind                                                              *)
(***************************************************************************)
UFInit(n) == [parent |-> [i \in 0..(n - 1) |-> i], rank |-> [i \in 0..(n - 1) |-> 0]]

\* find with path halving; returns the root and the parent array it leaves
RECURSIVE find(_, _)
find(parent, x) ==
    IF parent[x] = x THEN [root |-> x, parent |-> parent]
    ELSE LET p2 == [parent EXCEPT ![x] = parent[parent[x]]]
         IN find(p2, p2[x])

\* union that links b under a without looking up the two roots
union_no_find(uf, a, b) == [parent |-> [uf.parent EXCEPT ![b] = a], rank |-> uf.rank]

\* union that hangs the element a itself, not its root, under the other root
union_link_element(uf, a, b) ==
    LET fa == find(uf.parent, a)
        fb == find(fa.parent, b)
    IN IF fa.root = fb.root THEN [parent |-> fb.parent, rank |-> uf.rank]
       ELSE [parent |-> [fb.parent EXCEPT ![a] = fb.root], rank |-> uf.rank]

union(uf, a, b) ==
    LET fa == find(uf.parent, a)
        fb == find(fa.parent, b)
        ra == fa.root
        rb == fb.root
        p  == fb.parent
    IN IF ra = rb THEN [parent |-> p, rank |-> uf.rank]
       ELSE IF uf.rank[ra] < uf.rank[rb]
            THEN [parent |-> [p EXCEPT ![ra] = rb], rank |-> uf.rank]
       ELSE IF uf.rank[ra] > uf.rank[rb]
            THEN [parent |-> [p EXCEPT ![rb] = ra], rank |-> uf.rank]
       ELSE [parent |-> [p EXCEPT ![rb] = ra],
             rank   |-> [uf.rank EXCEPT ![ra] = uf.rank[ra] + 1]]

(***************************************************************************)
(* cluster_items                                                           *)
(***************************************************************************)
\* the comparison turned round: sim[i, j] <= threshold
Linked_below(s, t, i, j) == s[i][j] <= t

\* if sim[i, j] >= threshold
Linked(s, t, i, j) == s[i][j] >= t

\* for i in range(n): for j in range(i + 1, n): if sim[i,j] >= threshold: union
RECURSIVE UnionPairs(_, _, _, _, _, _)
UnionPairs(uf, s, t, n, i, j) ==
    IF i >= n THEN uf
    ELSE IF j >= n THEN UnionPairs(uf, s, t, n, i + 1, i + 2)
    ELSE UnionPairs(IF Linked(s, t, i, j) THEN union(uf, i, j) ELSE uf,
                    s, t, n, i, j + 1)

\* groups.setdefault(r, []).append(i) on a dict kept in insertion order:
\* groups is the list of (root, idxs) entries in the order the keys were added
SetDefaultAppend(groups, r, i) ==
    IF \E k \in 1..Len(groups) : groups[k].root = r
    THEN [k \in 1..Len(groups) |->
            IF groups[k].root = r
            THEN [groups[k] EXCEPT !.idxs = Append(@, i)]
            ELSE groups[k]]
    ELSE Append(groups, [root |-> r, idxs |-> <<i>>])

\* for i in range(n): r = uf.find(i); groups.setdefault(r, []).append(i)
RECURSIVE GroupByRoot(_, _, _, _)
GroupByRoot(parent, groups, n, i) ==
    IF i >= n THEN groups
    ELSE LET f == find(parent, i)
         IN GroupByRoot(f.parent, SetDefaultAppend(groups, f.root, i), n, i + 1)

\* the sort without reverse=True
ClusterKey_ascending(idxs) == <<0 - Len(idxs), 0>>

\* clusters.sort(key=len, reverse=True)
ClusterKey(idxs) == <<Len(idxs), 0>>

\* The value cluster_items returns and whether it ran the vectorizer.  A
\* cluster is written as the list of the indices of its items (the source
\* returns the item dicts themselves: items[i] for i in idxs).
cluster_items(its, s, t) ==
    LET n == Cardinality(DOMAIN its) IN
    IF n = 0 THEN [clusters |-> <<>>, vec_invoked |-> FALSE]
    ELSE IF \A i \in DOMAIN its : _build_story_text(its[i]) = <<>>
         THEN [clusters |-> [k \in 1..n |-> <<k - 1>>], vec_invoked |-> FALSE]
    ELSE LET uf     == UnionPairs(UFInit(n), s, t, n, 0, 1)
             groups == GroupByRoot(uf.parent, <<>>, n, 0)
             values == [k \in 1..Len(groups) |-> groups[k].idxs]
             keys     == [k \in 1..Len(values) |-> ClusterKey(values[k])]
         IN [clusters |-> SortedReverse(values, keys), vec_invoked |-> TRUE]

(***************************************************************************)
(* Story synthesizer                                                       *)
(***************************************************************************)
\* the one character U+2026 appended by _shorten
Ellipsis == "..."

\* _shorten(text, max_len)
_shorten(text, max_len) ==
    LET t == CollapseWs(OrEmpty(text)) IN
    IF Len(t) <= max_len THEN t
    ELSE RStrip(SubSeq(t, 1, max_len - 1)) \o <<Ellipsis>>

UntitledStory == <<"U", "n", "t", "i", "t", "l", "e", "d", " ", "s", "t", "o", "r", "y">>

TitleCap == 120

\* the key without its second component
TitleKey_capped_only(t) == <<Min(Len(t), TitleCap), 0>>

\* key=lambda t: (min(len(t), 120), len(t)), compared as Python compares tuples
TitleKey(t) == <<Min(Len(t), TitleCap), Len(t)>>

NonEmpty(t) == t # <<>>

story_title_for_cluster(c) ==
    IF Len(c) = 1
    THEN (IF OrEmpty(c[1].title) = <<>> THEN UntitledStory ELSE c[1].title)
    ELSE LET stripped == [k \in 1..Len(c) |-> Strip(OrEmpty(c[k].title))]
             titles   == SelectSeq(stripped, NonEmpty)
         IN IF titles = <<>> THEN UntitledStory
            ELSE SortedReverse(titles, [k \in 1..Len(titles) |-> TitleKey(titles[k])])[1]

\* the test without the guard on an empty source
SeenSource_any(src, seen) == src \in seen

\* if src and src in seen_sources
SeenSource(src, seen) == src # <<>> /\ src \in seen

\* The first loop of story_summary_for_cluster, from item k on: the positions
\* (1-based, in cluster order) of the items whose snippet is appended to
\* picked.  pk is picked so far, seen is seen_sources.
RECURSIVE PickSnippets(_, _, _, _, _)
PickSnippets(c, max_sentences, k, pk, seen) ==
    IF k > Len(c) THEN pk
    ELSE LET src  == Strip(OrEmpty(c[k].source))
             snip == Strip(OrEmpty(c[k].summary))
         IN IF snip = <<>> THEN PickSnippets(c, max_sentences, k + 1, pk, seen)
            ELSE IF SeenSource(src, seen)
                 THEN PickSnippets(c, max_sentences, k + 1, pk, seen)
            ELSE IF Len(pk) + 1 >= max_sentences THEN Append(pk, k)
            ELSE PickSnippets(c, max_sentences, k + 1, Append(pk, k), seen \cup {src})

\* " ".join(parts)
RECURSIVE JoinSpace(_)
JoinSpace(parts) ==
    IF parts = <<>> THEN <<>>
    ELSE IF Len(parts) = 1 THEN parts[1]
    ELSE parts[1] \o <<" ">> \o JoinSpace(Tail(parts))

SnippetLen == 180

FallbackTitleLen == 160

story_summary_for_cluster(c, max_sentences) ==
    LET pk       == PickSnippets(c, max_sentences, 1, <<>>, {})
        snippets == [k \in 1..Len(pk) |-> _shorten(Strip(OrEmpty(c[pk[k]].summary)), SnippetLen)]
        first    == SubSeq(c, 1, Min(Len(c), max_sentences))
        fallback == [k \in 1..Len(first) |-> _shorten(OrEmpty(first[k].title), FallbackTitleLen)]
    IN Strip(JoinSpace(IF pk = <<>> THEN fallback ELSE snippets))

(***************************************************************************)
(* Source balancer                                                         *)
(***************************************************************************)
Unknown == <<"u", "n", "k", "n", "o", "w", "n">>

\* counts.get(src, 0) on a dict modelled as a function
Get(counts, src) == IF src \in DOMAIN counts THEN counts[src] ELSE 0

\* The loop of balance_items_by_source from item k on; out is the list of the
\* positions (1-based) of the accepted items, counts the dict of the source.
RECURSIVE BalanceLoop(_, _, _, _, _, _)
BalanceLoop(its, ps, tot, k, out, counts) ==
    IF k > Len(its) THEN out
    ELSE LET src == IF OrEmpty(its[k].source) = <<>> THEN Unknown ELSE its[k].source
         IN IF Get(counts, src) >= ps
            THEN BalanceLoop(its, ps, tot, k + 1, out, counts)
            ELSE LET out2    == Append(out, k)
                     counts2 == [x \in DOMAIN counts \cup {src} |->
                                    IF x = src THEN Get(counts, src) + 1 ELSE counts[x]]
                 IN IF Len(out2) >= tot THEN out2
                    ELSE BalanceLoop(its, ps, tot, k + 1, out2, counts2)

balance_items_by_source(its, ps, tot) == BalanceLoop(its, ps, tot, 1, <<>>, <<>>)

(***************************************************************************)
(* Dedup key and store                                                     *)
(***************************************************************************)
Sep == <<"|", "|">>

\* hashlib.sha256(...).hexdigest(): distinct inputs give distinct digests
sha256_hexdigest(base) == <<"sha256", base>>

\* the f-string without "or ''": None is formatted as the text None
stable_id_raw_link(source_name, link, title) ==
    sha256_hexdigest(Strip(source_name \o Sep
                           \o (IF link = None THEN <<"N", "o", "n", "e">> ELSE link)
                           \o Sep \o OrEmpty(title)))

stable_id(source_name, link, title) ==
    sha256_hexdigest(Strip(source_name \o Sep \o OrEmpty(link) \o Sep \o OrEmpty(title)))

\* clean_html_to_text on text without tags or entities: whitespace collapsed
clean_html_to_text(s) == Strip(CollapseWs(OrEmpty(s)))

\* a table without the PRIMARY KEY constraint: the INSERT never fails
IntegrityError_never(rows, row) == FALSE

\* conn.execute("INSERT INTO items ..."): uid is the PRIMARY KEY of the table
\* (init_db), so a row whose uid is present raises sqlite3.IntegrityError.
IntegrityError(rows, row) == \E r \in rows : r.uid = row.uid

\* The loop of upsert_items from entry k on.  st is [rows, inserted].
RECURSIVE UpsertLoop(_, _, _, _, _, _)
UpsertLoop(st, topic, source_name, entries, fetched_at, k) ==
    IF k > Len(entries) THEN st
    ELSE LET e       == entries[k]
             title   == Strip(OrEmpty(e.title))
             link    == Strip(OrEmpty(e.link))
             summary == clean_html_to_text(Strip(OrEmpty(e.summary)))
             row     == [uid |-> stable_id(source_name, link, title), topic |-> topic,
                         source |-> source_name, title |-> title, link |-> link,
                         summary |-> summary, fetched_at |-> fetched_at]
         IN IF title = <<>>
            THEN UpsertLoop(st, topic, source_name, entries, fetched_at, k + 1)
            ELSE IF IntegrityError(st.rows, row)
                 THEN UpsertLoop(st, topic, source_name, entries, fetched_at, k + 1)
            ELSE UpsertLoop([rows |-> st.rows \cup {row}, inserted |-> st.inserted + 1],
                            topic, source_name, entries, fetched_at, k + 1)

\* upsert_items(conn, topic, source, entries) at clock value t: the rows of
\* the table after conn.commit() and the returned count.  The columns
\* published, image_url, language and paywall are copied from the entry and
\* the source like summary and are left out.
upsert_items(rows, topic, source, entries, t) ==
    UpsertLoop([rows |-> rows, inserted |-> 0], topic, Strip(OrEmpty(source.name)),
               entries, t, 1)

(***************************************************************************)
(* Paginator (topic page loop of main)                                     *)
(***************************************************************************)
PAGE_SIZE == 12

MAX_PAGES == 5

\* chunks that overlap by one element: xs[i:i+size+1]
chunk_list_overlap(xs, size) ==
    [k \in 1..((Len(xs) + size - 1) \div size) |->
        SubSeq(xs, (k - 1) * size + 1, Min(k * size + 1, Len(xs)))]

\* [xs[i:i+size] for i in range(0, len(xs), size)], size >= 1
chunk_list(xs, size) ==
    [k \in 1..((Len(xs) + size - 1) \div size) |->
        SubSeq(xs, (k - 1) * size + 1, Min(k * size, Len(xs)))]

IsMulti(s) == s.n_articles >= 2

IsSingle(s) == s.n_articles = 1

\* f"{topic}.html" if k == 1 else f"{topic}_p{k}.html"
PageFile(topic, k) == IF k = 1 THEN <<topic, ".html">> ELSE <<topic, "_p", k, ".html">>

\* The keyword arguments of the render_template call for page page_idx.
RenderCall(topic, pages, page_idx) ==
    LET page_stories == pages[page_idx] IN
    [out_name       |-> <<"site/topics/">> \o PageFile(topic, page_idx),
     stories_multi  |-> SelectSeq(page_stories, IsMulti),
     stories_single |-> SelectSeq(page_stories, IsSingle),
     page           |-> page_idx,
     n_pages        |-> Len(pages),
     next_url       |-> IF page_idx < Len(pages)
                        THEN <<topic, "_p", page_idx + 1, ".html">> ELSE None,
     prev_url       |-> IF page_idx > 1
                        THEN (IF page_idx = 2 THEN <<topic, ".html">>
                              ELSE <<topic, "_p", page_idx - 1, ".html">>)
                        ELSE None]

\* One iteration of "for topic, stories in stories_by_topic.items()": the
\* render_template calls made for the topic, in order.
RenderTopic(topic, sts, size, cap) ==
    LET stories_multi  == SelectSeq(sts, IsMulti)
        stories_single == SelectSeq(sts, IsSingle)
        combined       == stories_multi \o stories_single
        chunks         == chunk_list(combined, size)
        pages          == SubSeq(chunks, 1, Min(cap, Len(chunks)))
    IN [k \in 1..Len(pages) |-> RenderCall(topic, pages, k)]

(***************************************************************************)
(* Bounds                                                                  *)
(***************************************************************************)
MaxN == 3       \* largest batch handed to cluster_items

MaxSim == 1     \* similarities are k / MaxSim for k in 0..MaxSim

MaxTitleCluster == 3    \* largest cluster whose titles vary

MaxSummaryCluster == 4  \* largest cluster whose sources and summaries vary

MaxItems == 5       \* longest list handed to balance_items_by_source

MaxPerSource == 2   \* largest per_source cap

MaxTotal == 3       \* largest total cap

MaxClock == 1       \* distinct values of utc_now_iso() during a run

MaxEntries == 2     \* longest entry list of one upsert_items call

MaxStories == 7     \* longest story list of a topic (besides the two long ones)

MaxPageSize == 3    \* largest page size besides PAGE_SIZE

MaxPageCap == 3     \* largest page cap besides MAX_PAGES

MaxUF == 4          \* size n of the _UnionFind object

MaxSidCalls == 2    \* stable_id calls recorded in one run

MaxFeeds == 3       \* configured sources, over two topics

(***************************************************************************)
(* Idle values of the variables a specification does not use               *)
(***************************************************************************)
ClusterIdle ==
    /\ items = <<>> /\ sim = <<>> /\ threshold = 0 /\ clusters = <<>>
    /\ vec_invoked = FALSE /\ cl_pc = "idle" /\ prev = <<>>

StoryIdle == cluster = <<>> /\ story = None /\ picked = <<>> /\ st_pc = "idle"

BalanceIdle ==
    b_items = <<>> /\ per_source = 0 /\ total = 0 /\ b_out = <<>> /\ b_pc = "idle"

StoreIdle == db = {} /\ now = 0 /\ call = <<>>

PageIdle ==
    /\ stories = <<>> /\ page_size = 1 /\ max_pages = 0
    /\ rendered = <<>> /\ pg_pc = "idle"

IngestIdle ==
    /\ outcomes = <<>> /\ ing_idx = 0 /\ ing_log = <<>> /\ total_inserted = 0
    /\ items_site = <<>> /\ ing_pc = "idle"

SidIdle == sid_calls = {}

UFIdle == uf_obj = <<>> /\ uf_comp = <<>> /\ uf_last = <<>>

RestIdle == IngestIdle /\ SidIdle /\ UFIdle

(***************************************************************************)
(* Specification of cluster_items                                          *)
(***************************************************************************)
EmptyItem == [title |-> <<>>, summary |-> None]

TitledItem == [title |-> <<"A", "-", SharpS>>, summary |-> <<"b", " ">>]

\* batches of n items: no item has text, every item has, all but the first have
Batches(n) ==
    {[i \in 0..(n - 1) |-> EmptyItem],
     [i \in 0..(n - 1) |-> TitledItem],
     [i \in 0..(n - 1) |-> IF i = 0 THEN EmptyItem ELSE TitledItem]}

Thresholds == 0..(MaxSim + 1)

\* A symmetric matrix with diagonal 1, as cosine_similarity returns it.
SimMatrices(n) ==
    LET Pairs == {p \in (0..(n - 1)) \X (0..(n - 1)) : p[1] < p[2]} IN
    {[i \in 0..(n - 1) |-> [j \in 0..(n - 1) |->
        IF i = j THEN MaxSim ELSE IF i < j THEN u[<<i, j>>] ELSE u[<<j, i>>]]] :
      u \in [Pairs -> 0..MaxSim]}

ClusterInit ==
    /\ \E n \in 0..MaxN :
         /\ items \in Batches(n)
         /\ sim \in SimMatrices(n)
    /\ threshold = 0 /\ clusters = <<>> /\ vec_invoked = FALSE
    /\ cl_pc = "start" /\ prev = <<>>
    /\ StoryIdle /\ BalanceIdle /\ StoreIdle /\ PageIdle /\ RestIdle

\* clusters = cluster_items(items, threshold=t, ...)
ClusterItems(t) ==
    /\ cl_pc \in {"start", "done"}
    /\ LET r == cluster_items(items, sim, t) IN
         /\ clusters' = r.clusters
         /\ vec_invoked' = r.vec_invoked
    /\ threshold' = t
    /\ prev' = IF cl_pc = "done"
               THEN <<[threshold |-> threshold, clusters |-> clusters]>> ELSE <<>>
    /\ cl_pc' = "done"
    /\ UNCHANGED <<items, sim, storyVars, balanceVars, storeVars, pageVars, restVars>>

ClusterNext == \E t \in Thresholds : ClusterItems(t)

SpecCluster == ClusterInit /\ [][ClusterNext]_vars

N == Cardinality(DOMAIN items)

Indices == 0..(N - 1)

\* the set of the members of the k-th returned cluster
Members(cs, k) == {cs[k][m] : m \in 1..Len(cs[k])}

SameCluster(cs, i, j) == \E k \in 1..Len(cs) : i \in Members(cs, k) /\ j \in Members(cs, k)

\* the items reachable from i over pairs with similarity >= t
RECURSIVE ReachFrom(_, _)
ReachFrom(S, t) ==
    LET S2 == S \cup {j \in Indices : \E i \in S : sim[i][j] >= t \/ sim[j][i] >= t}
    IN IF S2 = S THEN S ELSE ReachFrom(S2, t)

Connected(i, j, t) == j \in ReachFrom({i}, t)

IsPartition(cs) ==
    /\ \A i \in Indices : Cardinality({k \in 1..Len(cs) : i \in Members(cs, k)}) = 1
    /\ \A k \in 1..Len(cs) :
         /\ cs[k] # <<>>
         /\ Members(cs, k) \subseteq Indices
         /\ Cardinality(Members(cs, k)) = Len(cs[k])

\* C1: cluster_items returns a partition of the batch in which two items share
\* a cluster exactly when a path of pairwise similarities >= threshold joins
\* them, also when their direct similarity is below the threshold.
C1_ConnectedComponents ==
    cl_pc = "done" =>
        /\ IsPartition(clusters)
        /\ \A i, j \in Indices :
             SameCluster(clusters, i, j) <=> Connected(i, j, threshold)

\* two items below the threshold are merged through an intermediate item
C1_Witness ==
    /\ cl_pc = "done"
    /\ \E i, j \in Indices :
         /\ i # j /\ sim[i][j] < threshold
         /\ SameCluster(clusters, i, j)

AllEmptyText == \A i \in Indices : OrEmpty(items[i].title) = <<>> /\ OrEmpty(items[i].summary) = <<>>

\* C4 (as claimed): a batch of N <= 1 items gives exactly one cluster holding
\* all (0 or 1) items, and the vectorizer is not invoked.
C4_TrivialBatchShortCircuits ==
    (cl_pc = "done" /\ N <= 1) =>
        /\ Len(clusters) = 1
        /\ Members(clusters, 1) = Indices
        /\ ~vec_invoked

\* C5 (as claimed): a non-empty batch whose items all have an empty title and
\* summary is not vectorized and comes back as singleton clusters in input order.
C5_AllEmptyBatchSkipsVectorizer ==
    (cl_pc = "done" /\ N >= 1 /\ AllEmptyText) =>
        /\ ~vec_invoked
        /\ clusters = [k \in 1..N |-> <<k - 1>>]

Refines(fine, coarse) ==
    \A k \in 1..Len(fine) : \E m \in 1..Len(coarse) :
        Members(fine, k) \subseteq Members(coarse, m)

\* C6: of two clusterings of the same batch, the one made at the higher
\* threshold refines the one made at the lower threshold.
C6_ThresholdMonotone ==
    (cl_pc = "done" /\ prev # <<>>) =>
        /\ prev[1].threshold <= threshold => Refines(clusters, prev[1].clusters)
        /\ threshold <= prev[1].threshold => Refines(prev[1].clusters, clusters)

\* the threshold was raised and a cluster was split, others stayed merged
C6_Witness ==
    /\ cl_pc = "done" /\ prev # <<>>
    /\ prev[1].threshold < threshold
    /\ Len(clusters) > Len(prev[1].clusters)
    /\ \E k \in 1..Len(clusters) : Len(clusters[k]) >= 2

\* C10: clusters come largest first, clusters of equal size in the order of
\* their smallest member index, and the members of a cluster in input order.
C10_OutputOrder ==
    cl_pc = "done" =>
        /\ \A k \in 1..Len(clusters) : \A m \in 1..(Len(clusters[k]) - 1) :
             clusters[k][m] < clusters[k][m + 1]
        /\ \A k \in 1..(Len(clusters) - 1) :
             \/ Len(clusters[k]) > Len(clusters[k + 1])
             \/ /\ Len(clusters[k]) = Len(clusters[k + 1])
                /\ clusters[k][1] < clusters[k + 1][1]

\* a larger cluster is reported before the cluster that holds item 0
C10_Witness ==
    /\ cl_pc = "done" /\ Len(clusters) >= 2
    /\ 0 \notin Members(clusters, 1)
    /\ Len(clusters[1]) > Len(clusters[2])

(***************************************************************************)
(* Specification of the story synthesizer                                  *)
(***************************************************************************)
MaxSentences == 3

Rep(c, n) == [i \in 1..n |-> c]

\* titles as the store holds them (stripped), and the empty title
Titles ==
    {<<>>, <<"a", "b">>, <<"c", "d">>, Rep("x", TitleCap), Rep("y", TitleCap + 1),
     Rep("z", TitleCap + 1), Rep("w", TitleCap + 2)}

Sources == {<<>>, <<"A">>, <<"B">>, <<"C">>}

Summaries == {<<>>, <<"x">>}

SeqsUpTo(S, n) == UNION {[1..k -> S] : k \in 1..n}

TitleClusters ==
    {[k \in DOMAIN ts |-> [source |-> <<"A">>, title |-> ts[k], summary |-> <<>>]] :
        ts \in SeqsUpTo(Titles, MaxTitleCluster)}

SummaryClusters ==
    {[k \in DOMAIN ps |-> [source |-> ps[k][1], title |-> <<"t">>, summary |-> ps[k][2]]] :
        ps \in SeqsUpTo(Sources \X Summaries, MaxSummaryCluster)}

StoryInit ==
    /\ cluster \in TitleClusters \cup SummaryClusters
    /\ story = None /\ picked = <<>> /\ st_pc = "start"
    /\ ClusterIdle /\ BalanceIdle /\ StoreIdle /\ PageIdle /\ RestIdle

\* One iteration of "for cluster in clusters" in build_stories_for_topic.  The
\* article fields link, published, paywall and image_url are copied from the
\* item like source and title and are left out.
BuildStory ==
    /\ st_pc = "start"
    /\ story' = [title      |-> story_title_for_cluster(cluster),
                 summary    |-> story_summary_for_cluster(cluster, MaxSentences),
                 articles   |-> [k \in 1..Len(cluster) |->
                                   [source |-> cluster[k].source, title |-> cluster[k].title]],
                 n_articles |-> Len(cluster)]
    /\ picked' = PickSnippets(cluster, MaxSentences, 1, <<>>, {})
    /\ st_pc' = "done"
    /\ UNCHANGED <<cluster, clusterVars, balanceVars, storeVars, pageVars, restVars>>

StoryNext == BuildStory

SpecStory == StoryInit /\ [][StoryNext]_vars

IsPicked(k) == \E m \in 1..Len(picked) : picked[m] = k

PickedBefore(k) == {picked[m] : m \in {x \in 1..Len(picked) : picked[x] < k}}

\* C8 (as claimed): at most one accepted snippet per distinct source value and
\* at most 3 in all; an item is skipped exactly when its summary is empty or an
\* earlier accepted snippet has the same source, until 3 are accepted.
C8_OneSnippetPerSource ==
    st_pc = "done" =>
        /\ Len(picked) <= 3
        /\ \A a, b \in 1..Len(picked) :
             a # b => cluster[picked[a]].source # cluster[picked[b]].source
        /\ \A k \in 1..Len(cluster) :
             IsPicked(k) <=>
                /\ cluster[k].summary # <<>>
                /\ \A j \in PickedBefore(k) : cluster[j].source # cluster[k].source
                /\ Cardinality(PickedBefore(k)) < 3

\* C8 (amended): at most one accepted snippet per distinct non-empty source
\* and at most 3 in all; an item is skipped exactly when its summary is empty
\* or its source is non-empty and an earlier accepted snippet has the same
\* source, until 3 are accepted; items without a source are never skipped
\* for their source.
C8_OneSnippetPerNamedSource ==
    st_pc = "done" =>
        /\ Len(picked) <= 3
        /\ \A a, b \in 1..Len(picked) :
             (a # b /\ cluster[picked[a]].source # <<>>)
                => cluster[picked[a]].source # cluster[picked[b]].source
        /\ \A k \in 1..Len(cluster) :
             IsPicked(k) <=>
                /\ cluster[k].summary # <<>>
                /\ \/ cluster[k].source = <<>>
                   \/ \A j \in PickedBefore(k) : cluster[j].source # cluster[k].source
                /\ Cardinality(PickedBefore(k)) < 3

\* a repeated named source was skipped, two items without a source were both
\* accepted, and the third accepted snippet ended the walk
C8_Witness ==
    /\ st_pc = "done" /\ Len(cluster) = 4 /\ picked = <<1, 3, 4>>
    /\ cluster[2].summary # <<>> /\ cluster[2].source = cluster[1].source
    /\ cluster[3].source = <<>> /\ cluster[4].source = <<>>

\* the pair (min(length, 120), length) of a is larger than that of b
PairGreater(a, b) ==
    LET ca == IF Len(a) < 120 THEN Len(a) ELSE 120
        cb == IF Len(b) < 120 THEN Len(b) ELSE 120
    IN ca > cb \/ (ca = cb /\ Len(a) > Len(b))

TitlesOf(c) == {c[k].title : k \in 1..Len(c)}

BalanceSources == {<<>>, <<"A">>, Unknown}

BalanceInit ==
    /\ \E n \in 0..MaxItems : \E srcs \in [1..n -> BalanceSources] :
         b_items = [k \in 1..n |-> [source |-> srcs[k]]]
    /\ per_source \in 0..MaxPerSource
    /\ total \in 0..MaxTotal
    /\ b_out = <<>> /\ b_pc = "start"
    /\ ClusterIdle /\ StoryIdle /\ StoreIdle /\ PageIdle /\ RestIdle

\* items_site[topic] = balance_items_by_source(items_site[topic], per_source, total)
BalanceItems ==
    /\ b_pc = "start"
    /\ b_out' = balance_items_by_source(b_items, per_source, total)
    /\ b_pc' = "done"
    /\ UNCHANGED <<b_items, per_source, total, clusterVars, storyVars, storeVars, pageVars, restVars>>

BalanceNext == BalanceItems

SpecBalance == BalanceInit /\ [][BalanceNext]_vars

\* C2 (as claimed): for any list and any caps, the returned list holds no
\* source more than per_source times and has at most total items.
C2_CapsRespected ==
    b_pc = "done" =>
        /\ \A src \in BalanceSources :
             Cardinality({k \in 1..Len(b_out) : b_items[b_out[k]].source = src}) <= per_source
        /\ Len(b_out) <= total

(***************************************************************************)
(* Specification of the store under upsert_items                           *)
(***************************************************************************)
Entry(t, l) == [title |-> t, link |-> l, summary |-> <<"x", " ", " ", "y">>]

\* an entry without a title, one title with and without a link, another title
Entries == {Entry(<<>>, <<"l">>), Entry(<<"t">>, None), Entry(<<"t">>, <<"l">>), Entry(<<" ", "u">>, None)}

FeedSource == [name |-> <<"A", " ">>]

StoreInit ==
    /\ db = {} /\ now = 0 /\ call = <<>>
    /\ ClusterIdle /\ StoryIdle /\ BalanceIdle /\ PageIdle /\ RestIdle

\* inserted = upsert_items(conn, topic, source, entries)
UpsertItems(entries) ==
    /\ LET r == upsert_items(db, "de", FeedSource, entries, now) IN
         /\ db' = r.rows
         /\ call' = <<[entries |-> entries, inserted |-> r.inserted]>>
    /\ UNCHANGED <<now, clusterVars, storyVars, balanceVars, pageVars, restVars>>

\* time passes between two calls: utc_now_iso() gives a later value
Tick ==
    /\ now < MaxClock
    /\ now' = now + 1
    /\ UNCHANGED <<db, call, clusterVars, storyVars, balanceVars, pageVars, restVars>>

StoreNext ==
    \/ \E n \in 0..MaxEntries : \E entries \in [1..n -> Entries] : UpsertItems(entries)
    \/ Tick

SpecStore == StoreInit /\ [][StoreNext]_vars

\* the uid upsert_items computes for an entry of FeedSource
EntryUid(e) == stable_id(Strip(FeedSource.name), Strip(OrEmpty(e.link)), Strip(OrEmpty(e.title)))

HasTitle(e) == Strip(OrEmpty(e.title)) # <<>>

Stored(rows, e) == \E r \in rows : r.uid = EntryUid(e)

\* C3: the store holds at most one row per uid; an upsert_items call leaves
\* every stored row as it was, also the rows of the entries it is handed
\* again, returns the number of rows it added, and stores every titled entry
\* of the call, whether or not an earlier entry of the call was a duplicate.
C3_IdempotentIngestion ==
    [][ /\ \A r1, r2 \in db' : r1.uid = r2.uid => r1 = r2
        /\ (call' # call \/ db' # db) =>
             /\ db \subseteq db'
             /\ call'[1].inserted = Cardinality(db') - Cardinality(db)
             /\ \A k \in 1..Len(call'[1].entries) :
                  HasTitle(call'[1].entries[k]) => Stored(db', call'[1].entries[k])
      ]_vars

\* a call whose first entry was stored at an earlier time and whose second
\* entry is new: the old row is kept, one row is counted
C3_Witness ==
    /\ call # <<>> /\ Len(call[1].entries) = 2 /\ call[1].inserted = 1
    /\ \E r \in db : r.uid = EntryUid(call[1].entries[1]) /\ r.fetched_at < now
    /\ \E r \in db : r.uid = EntryUid(call[1].entries[2]) /\ r.fetched_at = now

(***************************************************************************)
(* Specification of the paginator                                          *)
(***************************************************************************)
\* stories_by_topic[topic] after the reorder step of main: nm stories of two
\* articles, then ns stories of one article
StoryList(nm, ns) ==
    [k \in 1..(nm + ns) |-> [id |-> k, n_articles |-> IF k <= nm THEN 2 ELSE 1]]

StoryCounts == (0..MaxStories) \cup {PAGE_SIZE * MAX_PAGES, PAGE_SIZE * MAX_PAGES + 1}

PageInit ==
    /\ \E n \in StoryCounts : \E nm \in 0..Min(n, MaxStories) : stories = StoryList(nm, n - nm)
    /\ page_size \in (1..MaxPageSize) \cup {PAGE_SIZE}
    /\ max_pages \in (0..MaxPageCap) \cup {MAX_PAGES}
    /\ rendered = <<>> /\ pg_pc = "start"
    /\ ClusterIdle /\ StoryIdle /\ BalanceIdle /\ StoreIdle /\ RestIdle

\* the body of "for topic, stories in stories_by_topic.items()" for one topic
RenderTopicPages ==
    /\ pg_pc = "start"
    /\ rendered' = RenderTopic("de", stories, page_size, max_pages)
    /\ pg_pc' = "done"
    /\ UNCHANGED <<stories, page_size, max_pages, clusterVars, storyVars, balanceVars, storeVars, restVars>>

PageNext == RenderTopicPages

SpecPages == PageInit /\ [][PageNext]_vars

PageStories(k) == rendered[k].stories_multi \o rendered[k].stories_single

\* number of page_size chunks of the story list
NChunks == (Len(stories) + page_size - 1) \div page_size

\* C7: the pages are the consecutive page_size chunks of the story list, in
\* order, the first max_pages of them; each page carries its 1-based number
\* and the number of pages produced; next is present except on the last page
\* produced, previous except on page 1, and page 2's previous is the
\* un-suffixed page of the topic.
C7_Pagination ==
    pg_pc = "done" =>
        /\ Len(rendered) = Min(max_pages, NChunks)
        /\ \A k \in 1..Len(rendered) :
             /\ PageStories(k) =
                  SubSeq(stories, (k - 1) * page_size + 1, Min(k * page_size, Len(stories)))
             /\ k < Len(rendered) => Len(PageStories(k)) = page_size
             /\ Len(PageStories(k)) >= 1
             /\ rendered[k].page = k
             /\ rendered[k].n_pages = Len(rendered)
             /\ (rendered[k].next_url # None) <=> (k < Len(rendered))
             /\ k < Len(rendered) => rendered[k].next_url = <<"de", "_p", k + 1, ".html">>
             /\ (rendered[k].prev_url # None) <=> (k > 1)
             /\ k = 2 => rendered[k].prev_url = <<"de", ".html">>
             /\ k > 2 => rendered[k].prev_url = <<"de", "_p", k - 1, ".html">>
        /\ \A k, m \in 1..Len(rendered) : \A a \in 1..Len(PageStories(k)) :
             \A b \in 1..Len(PageStories(m)) :
                PageStories(k)[a].id = PageStories(m)[b].id => (k = m /\ a = b)

\* page size 2, 5 stories, cap 3: pages of 2, 2 and 1 stories
C7_Witness ==
    /\ pg_pc = "done" /\ page_size = 2 /\ Len(stories) = 5 /\ max_pages = 3
    /\ Len(rendered) = 3
    /\ Len(PageStories(1)) = 2 /\ Len(PageStories(2)) = 2 /\ Len(PageStories(3)) = 1
    /\ rendered[2].next_url # None /\ rendered[2].prev_url # None
    /\ rendered[3].next_url = None /\ rendered[3].prev_url # None

(***************************************************************************)
(* Specification of _UnionFind under arbitrary union and find calls        *)
(***************************************************************************)
AllIdle == ClusterIdle /\ StoryIdle /\ BalanceIdle /\ StoreIdle /\ PageIdle

UFIndices == 0..(MaxUF - 1)

\* uf = _UnionFind(n)
UFSpecInit ==
    /\ uf_obj = UFInit(MaxUF)
    /\ uf_comp = [i \in UFIndices |-> i]
    /\ uf_last = <<>>
    /\ AllIdle /\ IngestIdle /\ SidIdle

\* uf.union(a, b)
UFUnion(a, b) ==
    /\ uf_obj # <<>>
    /\ uf_obj' = union(uf_obj, a, b)
    /\ uf_comp' = [i \in UFIndices |->
                     IF uf_comp[i] \in {uf_comp[a], uf_comp[b]}
                     THEN Min(uf_comp[a], uf_comp[b]) ELSE uf_comp[i]]
    /\ uf_last' = <<[op |-> "union", a |-> a, b |-> b]>>
    /\ UNCHANGED <<clusterVars, storyVars, balanceVars, storeVars, pageVars, ingestVars, sidVars>>

\* r = uf.find(x)
UFFind(x) ==
    /\ uf_obj # <<>>
    /\ LET f == find(uf_obj.parent, x) IN
         /\ uf_obj' = [uf_obj EXCEPT !.parent = f.parent]
         /\ uf_last' = <<[op |-> "find", a |-> x, root |-> f.root]>>
    /\ UNCHANGED <<uf_comp, clusterVars, storyVars, balanceVars, storeVars, pageVars, ingestVars, sidVars>>

UFNext ==
    \/ \E a, b \in UFIndices : UFUnion(a, b)
    \/ \E x \in UFIndices : UFFind(x)

SpecUF == UFSpecInit /\ [][UFNext]_vars

\* the index reached from x after k steps along the parent pointers
RECURSIVE Ancestor(_, _, _)
Ancestor(parent, x, k) == IF k = 0 THEN x ELSE Ancestor(parent, parent[x], k - 1)

\* every index reaches a self-parented root within n steps
IsForest(parent) ==
    \A x \in UFIndices : LET r == Ancestor(parent, x, MaxUF) IN parent[r] = r

SameRoot(parent, a, b) == Ancestor(parent, a, MaxUF) = Ancestor(parent, b, MaxUF)

\* C13: after every union or find call the parent array is a forest, two
\* indices have the same root exactly when a chain of the union calls made so
\* far links them, a find call returns the root of its argument, and a find
\* call leaves the sets as they were.
C13_UnionFindForest ==
    [][ /\ IsForest(uf_obj'.parent)
        /\ \A a, b \in UFIndices :
             SameRoot(uf_obj'.parent, a, b) <=> (uf_comp'[a] = uf_comp'[b])
        /\ uf_last'[1].op = "find" =>
             /\ uf_last'[1].root = Ancestor(uf_obj.parent, uf_last'[1].a, MaxUF)
             /\ \A a, b \in UFIndices :
                  SameRoot(uf_obj'.parent, a, b) <=> SameRoot(uf_obj.parent, a, b)
      ]_vars

\* a find call has just halved a path: in a set of four indices whose root r
\* has rank 2, the argument of the call hung two steps below r (under the
\* root of rank 1 that was linked to r) and now points at r
C13_Witness ==
    /\ uf_last # <<>> /\ uf_last[1].op = "find"
    /\ LET x == uf_last[1].a
           r == uf_last[1].root
       IN /\ x # r /\ uf_obj.parent[x] = r
          /\ uf_obj.rank[r] = 2 /\ uf_obj.rank[x] = 0
          /\ Cardinality({z \in UFIndices : uf_comp[z] = uf_comp[r]}) = 4
          /\ \E y \in UFIndices : y # r /\ uf_obj.rank[y] = 1 /\ uf_obj.parent[y] = r
          /\ Cardinality({z \in UFIndices : uf_obj.parent[z] = r /\ uf_obj.rank[z] = 0}) = 2

(***************************************************************************)
(* Specification of stable_id                                              *)
(***************************************************************************)
SidSources == {<<"A">>, <<"B">>}

SidLinks == {None, <<>>, <<"l">>}

SidTitles == {None, <<>>, <<"T">>}

SidInit == sid_calls = {} /\ AllIdle /\ IngestIdle /\ UFIdle

\* uid = stable_id(source_name, link, title)
StableId(s, l, t) ==
    /\ Cardinality(sid_calls) < MaxSidCalls
    /\ sid_calls' = sid_calls \cup
         {[source |-> s, link |-> l, title |-> t, key |-> stable_id(s, l, t)]}
    /\ UNCHANGED <<clusterVars, storyVars, balanceVars, storeVars, pageVars, ingestVars, ufVars>>

SidNext == \E s \in SidSources, l \in SidLinks, t \in SidTitles : StableId(s, l, t)

SpecSid == SidInit /\ [][SidNext]_vars

\* the links None and '' are the same link
SameLink(l1, l2) == l1 = l2 \/ ({l1, l2} = {None, <<>>})

\* C12: two stable_id calls with the same source and title, and with the same
\* link or with the links None and '', return the same key.
C12_StableIdPure ==
    \A c1, c2 \in sid_calls :
        (c1.source = c2.source /\ c1.title = c2.title /\ SameLink(c1.link, c2.link))
            => c1.key = c2.key

\* the same source and title were keyed once with link None and once with ''
C12_Witness ==
    \E c1, c2 \in sid_calls :
        /\ c1.source = c2.source /\ c1.title = c2.title /\ c1.title = <<"T">>
        /\ c1.link = None /\ c2.link = <<>>
        /\ c1.key = c2.key

(***************************************************************************)
(* Specification of the ingestion loop of main                             *)
(***************************************************************************)
FeedNames == <<"A", "B", "C", "D", "E", "F">>

\* feeds.items() flattened in configuration order: the sources of topic
\* "de", then the sources of topic "international"
FeedAt(k) ==
    [topic  |-> IF 2 * k <= MaxFeeds + 1 THEN "de" ELSE "international",
     source |-> [name |-> <<FeedNames[k]>>, url |-> <<"u", FeedNames[k]>>]]

\* the entries every feed delivers when it can be fetched and parsed
FeedEntries == <<Entry(<<"t">>, None), Entry(<<" ", "u">>, <<"l">>)>>

\* fetch_feed raises (requests), parse_entries raises, upsert_items raises on
\* its second INSERT with an error other than IntegrityError, or all succeed
Outcomes == {"ok", "fetch_error", "parse_error", "insert_error"}

\* "except Exception" catching only the errors of requests
Caught_fetch_only(exc) == exc = "fetch_error"

\* except Exception as ex: the three errors are subclasses of Exception
Caught(exc) == exc \in {"fetch_error", "parse_error", "insert_error"}

IngestInit ==
    /\ outcomes \in [1..MaxFeeds -> Outcomes]
    /\ ing_idx = 0 /\ ing_log = <<>> /\ total_inserted = 0
    /\ items_site = <<>> /\ ing_pc = "loop"
    /\ AllIdle /\ SidIdle /\ UFIdle

\* One iteration of "for source in sources" (of "for topic, sources in
\* feeds.items()"): the try block and its except clause.
IngestSource ==
    /\ ing_pc = "loop" /\ ing_idx < MaxFeeds
    /\ LET k   == ing_idx + 1
           f   == FeedAt(k)
           out == outcomes[k]
           \* rows written before upsert_items raised stay in the transaction
           r   == IF out = "ok"
                  THEN upsert_items(db, f.topic, f.source, FeedEntries, now)
                  ELSE IF out = "insert_error"
                  THEN upsert_items(db, f.topic, f.source, SubSeq(FeedEntries, 1, 1), now)
                  ELSE [rows |-> db, inserted |-> 0]
       IN /\ db' = r.rows
          /\ IF out = "ok"
             THEN /\ total_inserted' = total_inserted + r.inserted
                  /\ ing_log' = Append(ing_log,
                        [status |-> "OK", topic |-> f.topic, name |-> f.source.name,
                         entries |-> Len(FeedEntries), inserted |-> r.inserted])
                  /\ ing_idx' = k
                  /\ ing_pc' = "loop"
             ELSE IF Caught(out)
             THEN /\ ing_log' = Append(ing_log,
                        [status |-> "ERR", topic |-> f.topic, name |-> f.source.name,
                         url |-> f.source.url, ex |-> out])
                  /\ ing_idx' = k
                  /\ ing_pc' = "loop"
                  /\ UNCHANGED total_inserted
             ELSE /\ ing_pc' = "raised"
                  /\ UNCHANGED <<ing_log, ing_idx, total_inserted>>
    /\ UNCHANGED <<outcomes, items_site, now, call, clusterVars, storyVars, balanceVars,
                   pageVars, sidVars, ufVars>>

\* items_site = get_latest_items_by_topic(conn, MAX_ITEMS_SITE) after the
\* loop: the rows of each topic that has rows (fewer than the limit here)
GetLatestItems ==
    /\ ing_pc = "loop" /\ ing_idx = MaxFeeds
    /\ items_site' = [t \in {r.topic : r \in db} |-> {r \in db : r.topic = t}]
    /\ ing_pc' = "build"
    /\ UNCHANGED <<outcomes, ing_idx, ing_log, total_inserted, storeVars, clusterVars,
                   storyVars, balanceVars, pageVars, sidVars, ufVars>>

IngestNext == IngestSource \/ GetLatestItems

SpecIngest == IngestInit /\ [][IngestNext]_vars

\* the pool handed to the build step holds the entry with this title of feed k
InPool(k, title) ==
    /\ FeedAt(k).topic \in DOMAIN items_site
    /\ \E r \in items_site[FeedAt(k).topic] :
         r.source = FeedAt(k).source.name /\ r.title = title

\* C11: whatever subset of the sources fails in fetch, parse or insert, no
\* exception leaves the loop, every source is attempted exactly once in
\* configuration order, a failed source leaves one error line, and the build
\* step is reached with the items of every source that succeeded.
C11_FetchFailuresIsolated ==
    /\ ing_pc # "raised"
    /\ Len(ing_log) = ing_idx
    /\ \A k \in 1..Len(ing_log) :
         /\ ing_log[k].topic = FeedAt(k).topic
         /\ ing_log[k].name = FeedAt(k).source.name
         /\ (ing_log[k].status = "ERR") <=> (outcomes[k] # "ok")
         /\ (ing_log[k].status = "OK") <=> (outcomes[k] = "ok")
    /\ ing_pc = "build" =>
         /\ ing_idx = MaxFeeds
         /\ \A k \in 1..MaxFeeds :
              outcomes[k] = "ok" => (InPool(k, <<"t">>) /\ InPool(k, <<"u">>))

\* the first source failed to fetch, the last failed while inserting, one in
\* between succeeded, and its items reached the build step
C11_Witness ==
    /\ ing_pc = "build"
    /\ outcomes[1] = "fetch_error" /\ outcomes[MaxFeeds] = "insert_error"
    /\ \E k \in 2..(MaxFeeds - 1) : outcomes[k] = "ok" /\ InPool(k, <<"u">>)
    /\ ~InPool(1, <<"t">>)
    /\ Len(ing_log) = MaxFeeds

====
